---- MODULE Spec2Model ----
(***************************************************************************)
(* A model of atoma's Atom parser (atoma/atom_parser.py) and of the text   *)
(* accessor of atoma/utils.py.                                             *)
(*                                                                         *)
(* Python values are modelled as follows.                                  *)
(*   str            a sequence of one-character strings                    *)
(*   Optional[T]    None is <<>>, a value v is <<v>>                       *)
(*   Element        [tag, attrib, text, children]; attrib maps every       *)
(*                  attribute name to an Optional[str] (None: key absent)  *)
(*   list of Person an address into heap (lists have identity); the other  *)
(*                  lists are built by a comprehension and never aliased,  *)
(*                  they are modelled by their value                       *)
(*   a call         [exc, val]: the exception raised (NoExc: none) and the *)
(*                  value returned                                         *)
(***************************************************************************)
EXTENDS Integers, Sequences, FiniteSets, TLC

\* Bounds of the input documents.
MaxEntries == 2
MaxPersons == 2

None == <<>>
Some(v) == <<v>>

(***************************************************************************)
(* Exceptions.                                                             *)
(***************************************************************************)
NoExc == [type |-> "none", name |-> "", parent |-> ""]
\* AtomParseError('Could not parse Atom feed: "{name}" required in "{parent}"')
AtomParseError(name, parent) == [type |-> "AtomParseError", name |-> name, parent |-> parent]
\* FeedParseError of utils.py; parent is "" for the empty-text message
FeedParseError(name, parent) == [type |-> "FeedParseError", name |-> name, parent |-> parent]
\* 'NoneType' object has no attribute 'strip'
AttributeError == [type |-> "AttributeError", name |-> "", parent |-> ""]
KeyError(key) == [type |-> "KeyError", name |-> key, parent |-> ""]
ValueError == [type |-> "ValueError", name |-> "", parent |-> ""]

Ok(v) == [exc |-> NoExc, val |-> v]
Raise(e) == [exc |-> e, val |-> None]
Raised(r) == r.exc.type # "none"

(***************************************************************************)
(* Strings.                                                                *)
(***************************************************************************)
Whitespace == {" "}
Digits == {"0", "1", "2", "3", "4", "5", "6", "7", "8", "9"}

RECURSIVE lstrip(_)
lstrip(s) == IF s # <<>> /\ Head(s) \in Whitespace THEN lstrip(Tail(s)) ELSE s

RECURSIVE rstrip(_)
rstrip(s) == IF s # <<>> /\ s[Len(s)] \in Whitespace THEN rstrip(SubSeq(s, 1, Len(s) - 1)) ELSE s

\* str.strip()
strip(s) == rstrip(lstrip(s))

DigitValue(c) == CHOOSE n \in 0..9 : <<"0", "1", "2", "3", "4", "5", "6", "7", "8", "9">>[n + 1] = c

RECURSIVE DecimalValue(_)
DecimalValue(s) == IF s = <<>> THEN 0 ELSE 10 * DecimalValue(SubSeq(s, 1, Len(s) - 1)) + DigitValue(s[Len(s)])

\* int(s) on the alphabet of the model (whitespace, digits, letters)
int(s) ==
  LET t == strip(s)
  IN IF t # <<>> /\ \A i \in 1..Len(t) : t[i] \in Digits THEN Ok(DecimalValue(t)) ELSE Raise(ValueError)

\* dateutil.parser.parse: the texts the model uses that it accepts
ParseableDates == {<<"2", "0", "1", "7">>, <<"2", "0", "1", "8">>}
dateutil_parse(s) == IF s \in ParseableDates THEN Ok([timestamp |-> s]) ELSE Raise(ValueError)

(***************************************************************************)
(* Elements.                                                               *)
(***************************************************************************)
AttrNames == {"type", "href", "rel", "hreflang", "title", "length", "term", "scheme", "label", "uri", "version"}
NoAttrs == [n \in AttrNames |-> None]
El(tag, attrib, text, children) == [tag |-> tag, attrib |-> attrib, text |-> text, children |-> children]

\* Element.findall(name, _ns): the children of that name, in document order
findall(element, name) == SelectSeq(element.children, LAMBDA c : c.tag = name)
\* Element.find(name, _ns): the first of them, or None
find(element, name) == LET m == findall(element, name) IN IF Len(m) = 0 THEN None ELSE Some(m[1])

\* child.text.strip()
text_strip(child) == IF child.text = None THEN Raise(AttributeError) ELSE Ok(strip(child.text[1]))

\* the results of a list comprehension: the first exception raised, or the list
CollectResults(rs) ==
  IF \E i \in 1..Len(rs) : Raised(rs[i])
  THEN Raise(rs[CHOOSE i \in 1..Len(rs) : Raised(rs[i]) /\ \A j \in 1..(i - 1) : ~Raised(rs[j])].exc)
  ELSE Ok([i \in 1..Len(rs) |-> rs[i].val])

\* the same, the calls being made once
Collect(calls) == CHOOSE out \in {CollectResults(rs) : rs \in {calls}} : TRUE

\* the first exception raised by calls evaluated in this order, or NoExc
FirstExc(rs) == Collect(rs).exc

(***************************************************************************)
(* atoma/utils.py                                                          *)
(***************************************************************************)
get_child(element, name, optional) ==
  LET child == find(element, name)
  IN IF child = None /\ ~optional THEN Raise(FeedParseError(name, element.tag)) ELSE Ok(child)

get_text(element, name, optional) ==
  LET c == get_child(element, name, optional)
  IN IF Raised(c) THEN c
     ELSE IF c.val = None THEN Ok(None)
     ELSE IF c.val[1].text = None
          THEN IF optional THEN Ok(None) ELSE Raise(FeedParseError(name, ""))
     ELSE Ok(Some(strip(c.val[1].text[1])))

(***************************************************************************)
(* atoma/atom_parser.py: the element accessors and the value extractors    *)
(***************************************************************************)
AtomTextType == {<<"t", "e", "x", "t">>, <<"h", "t", "m", "l">>, <<"x", "h", "t", "m", "l">>}
AtomTextType_text == <<"t", "e", "x", "t">>

_get_child(element, name, optional) ==
  LET child == find(element, name)
  IN IF child = None /\ ~optional THEN Raise(AtomParseError(name, element.tag)) ELSE Ok(child)

_get_text(element, name, optional) ==
  LET c == _get_child(element, name, optional)
  IN IF Raised(c) THEN c
     ELSE IF c.val = None THEN Ok(None)
     ELSE LET t == text_strip(c.val[1]) IN IF Raised(t) THEN t ELSE Ok(Some(t.val))

_get_datetime(element, name, optional) ==
  LET c == _get_child(element, name, optional)
  IN IF Raised(c) THEN c
     ELSE IF c.val = None THEN Ok(None)
     ELSE LET t == text_strip(c.val[1])
          IN IF Raised(t) THEN t
             ELSE LET d == dateutil_parse(t.val) IN IF Raised(d) THEN d ELSE Ok(Some(d.val))

_get_generator(element, name, optional) ==
  LET c == _get_child(element, name, optional)
  IN IF Raised(c) THEN c
     ELSE IF c.val = None THEN Ok(None)
     ELSE LET child == c.val[1]
              t == text_strip(child)
          IN IF Raised(t) THEN t
             ELSE Ok(Some([name |-> t.val, uri |-> child.attrib["uri"], version |-> child.attrib["version"]]))

\* AtomTextType(child.attrib['type']), KeyError caught
text_type_of(child) ==
  IF child.attrib["type"] = None THEN Ok(AtomTextType_text)
  ELSE IF child.attrib["type"][1] \in AtomTextType THEN Ok(child.attrib["type"][1])
  ELSE Raise(ValueError)

_get_text_construct(element, name, optional) ==
  LET c == _get_child(element, name, optional)
  IN IF Raised(c) THEN c
     ELSE IF c.val = None THEN Ok(None)
     ELSE LET child == c.val[1]
              ty == text_type_of(child)
              t == text_strip(child)
          IN IF Raised(ty) THEN ty
             ELSE IF Raised(t) THEN t
             \* xml.etree's Element has no attribute lang: lang is None
             ELSE Ok(Some([text_type |-> ty.val, lang |-> None, value |-> t.val]))

_get_person(element) ==
  LET name == _get_text(element, "feed:name", FALSE)
      uri == _get_text(element, "feed:uri", TRUE)
      email == _get_text(element, "feed:email", TRUE)
      e == FirstExc(<<name, uri, email>>)
  IN IF e # NoExc THEN Raise(e)
     ELSE Ok([name |-> name.val[1], uri |-> uri.val, email |-> email.val])

_get_link(element) ==
  LET a == element.attrib
      length == IF a["length"] # None /\ a["length"][1] # <<>>
                THEN LET n == int(a["length"][1]) IN IF Raised(n) THEN n ELSE Ok(Some(n.val))
                ELSE Ok(None)
  IN IF Raised(length) THEN length
     ELSE IF a["href"] = None THEN Raise(KeyError("href"))
     ELSE Ok([href |-> a["href"][1], rel |-> a["rel"], type_ |-> a["type"],
              hreflang |-> a["hreflang"], title |-> a["title"], length |-> length.val])

_get_category(element) ==
  LET a == element.attrib
  IN IF a["term"] = None THEN Raise(KeyError("term"))
     ELSE Ok([term |-> a["term"][1], scheme |-> a["scheme"], label |-> a["label"]])

persons(element, name) == LET es == findall(element, name) IN Collect([i \in 1..Len(es) |-> _get_person(es[i])])
links(element) == LET es == findall(element, "feed:link") IN Collect([i \in 1..Len(es) |-> _get_link(es[i])])
categories(element) == LET es == findall(element, "feed:category") IN Collect([i \in 1..Len(es) |-> _get_category(es[i])])

(***************************************************************************)
(* The input documents: element trees as the XML parser hands them over.   *)
(***************************************************************************)
s_T == <<" ", "T", " ">>
s_id == <<"i", "d">>
s_blank == <<" ">>
s_bogus == <<"b", "o", "g", "u", "s">>
s_url == <<"u">>
s_2017 == <<" ", "2", "0", "1", "7">>
s_nodate == <<"x">>

Attrs1(k, v) == [NoAttrs EXCEPT ![k] = Some(v)]
Leaf(tag, text) == El(tag, NoAttrs, text, <<>>)

\* text constructs: every type attribute, with and without text
TypeAttrs == {None, Some(s_bogus)} \cup {Some(t) : t \in AtomTextType}
TextConstructEls(tag) == {El(tag, [NoAttrs EXCEPT !["type"] = ty], tx, <<>>) : ty \in TypeAttrs, tx \in {None, Some(s_T)}}
okTitle == Leaf("feed:title", Some(s_T))
okId == Leaf("feed:id", Some(s_id))

PersonEl(tag, kids) == El(tag, NoAttrs, None, kids)
okName(c) == Leaf("feed:name", Some(<<c>>))
Pa(tag) == PersonEl(tag, <<okName("a")>>)
Pb(tag) == PersonEl(tag, <<okName("b"), Leaf("feed:uri", Some(s_url)), Leaf("feed:email", Some(<<"m">>))>>)
Pc(tag) == PersonEl(tag, <<okName("c")>>)
\* persons that do not parse: no name, a name without text, a uri without text
BadPersons(tag) == {PersonEl(tag, <<>>), PersonEl(tag, <<Leaf("feed:name", None)>>), PersonEl(tag, <<okName("a"), Leaf("feed:uri", None)>>)}

LinkEl(href, length) == El("feed:link", [NoAttrs EXCEPT !["href"] = href, !["length"] = length], None, <<>>)
okLink == LinkEl(Some(s_url), None)
LinkEls == {okLink, LinkEl(None, None), LinkEl(Some(s_url), Some(<<" ", "1", "2">>)), LinkEl(Some(s_url), Some(<<>>)), LinkEl(Some(s_url), Some(<<"1", "x">>)), LinkEl(None, Some(<<"1", "x">>)), El("feed:link", [NoAttrs EXCEPT !["href"] = Some(s_url), !["rel"] = Some(<<"r">>), !["type"] = Some(s_bogus)], None, <<>>)}
CategoryEls == {El("feed:category", Attrs1("term", <<"k">>), None, <<>>), El("feed:category", Attrs1("label", <<"l">>), None, <<>>)}
DateEls(tag) == {Leaf(tag, Some(s_2017)), Leaf(tag, Some(s_nodate)), Leaf(tag, None)}
GeneratorEls == {El("feed:generator", Attrs1("uri", s_url), Some(<<"g", " ">>), <<>>), Leaf("feed:generator", None)}
TextEls(tag) == {Leaf(tag, Some(s_url)), Leaf(tag, None)}

Singletons(S) == {<<e>> : e \in S}
\* the sequences over S of length at most n
RECURSIVE SeqsUpTo(_, _)
SeqsUpTo(S, n) == IF n = 0 THEN {<<>>} ELSE LET R == SeqsUpTo(S, n - 1) IN R \cup {Append(r, e) : r \in R, e \in S}

\* A feed or source element is described by its groups of children.
FeedGroups == <<"title", "id", "updated", "authors", "contributors", "links", "categories", "generator", "subtitle", "rights", "icon", "logo", "entries">>
EntryGroups == <<"title", "id", "source", "authors", "contributors", "links", "categories", "updated", "published", "rights", "summary", "content">>
RECURSIVE Concat(_, _, _)
Concat(shape, groups, i) == IF i > Len(groups) THEN <<>> ELSE shape[groups[i]] \o Concat(shape, groups, i + 1)
FeedEl(tag, shape) == El(tag, NoAttrs, None, Concat(shape, FeedGroups, 1))
EntryEl(shape) == El("feed:entry", NoAttrs, None, Concat(shape, EntryGroups, 1))

MinimalFeed == [g \in {FeedGroups[i] : i \in 1..Len(FeedGroups)} |-> IF g = "title" THEN <<okTitle>> ELSE IF g = "id" THEN <<okId>> ELSE <<>>]
MinimalEntry == [g \in {EntryGroups[i] : i \in 1..Len(EntryGroups)} |-> IF g = "title" THEN <<okTitle>> ELSE IF g = "id" THEN <<okId>> ELSE <<>>]

\* the children a group may hold besides the minimal document's
TitleChoices == {<<>>, <<okTitle, Leaf("feed:title", None)>>} \cup Singletons(TextConstructEls("feed:title"))
IdChoices == {<<>>, <<Leaf("feed:id", None)>>, <<Leaf("feed:id", Some(s_blank))>>}
PersonChoices(tag) == Singletons(BadPersons(tag) \cup {Pa(tag), Pb(tag)}) \cup {<<Pa(tag), PersonEl(tag, <<>>)>>}
GroupChoices(g) ==
  CASE g = "title" -> TitleChoices
    [] g = "id" -> IdChoices
    [] g = "updated" -> Singletons(DateEls("feed:updated"))
    [] g = "published" -> Singletons(DateEls("feed:published"))
    [] g = "authors" -> PersonChoices("feed:author")
    [] g = "contributors" -> PersonChoices("feed:contributor")
    [] g = "links" -> Singletons(LinkEls) \cup {<<okLink, LinkEl(None, None)>>}
    [] g = "categories" -> Singletons(CategoryEls)
    [] g = "generator" -> Singletons(GeneratorEls)
    [] g = "subtitle" -> Singletons({Leaf("feed:subtitle", Some(s_T)), El("feed:subtitle", Attrs1("type", s_bogus), Some(s_T), <<>>)})
    [] g = "rights" -> Singletons({El("feed:rights", Attrs1("type", <<"h", "t", "m", "l">>), Some(s_T), <<>>), Leaf("feed:rights", None)})
    [] g = "summary" -> Singletons(TextEls("feed:summary"))
    [] g = "content" -> Singletons({El("feed:content", Attrs1("type", <<"x", "h", "t", "m", "l">>), Some(s_T), <<>>), El("feed:content", Attrs1("type", s_bogus), None, <<>>)})
    [] g = "icon" -> Singletons(TextEls("feed:icon"))
    [] g = "logo" -> Singletons(TextEls("feed:logo"))
    [] OTHER -> {}
\* shape with one group replaced
Variants(shape) == UNION {{[shape EXCEPT ![g] = c] : c \in GroupChoices(g)} : g \in DOMAIN shape} \ {shape}

OkAuthorSeqs(tag) == SeqsUpTo({Pa(tag), Pb(tag)}, MaxPersons)

\* <source> elements: the minimal one, one group changed, and sources that
\* hold authors and <entry> children (themselves with a <source>)
InnerEntries == {EntryEl(MinimalEntry), EntryEl([MinimalEntry EXCEPT !.title = <<>>]), EntryEl([MinimalEntry EXCEPT !.source = <<FeedEl("feed:source", [MinimalFeed EXCEPT !.entries = <<EntryEl(MinimalEntry)>>])>>])}
SourceShapes == {MinimalFeed} \cup Variants(MinimalFeed) \cup {[MinimalFeed EXCEPT !.authors = a, !.entries = es] : a \in {<<>>, <<Pc("feed:author")>>}, es \in SeqsUpTo(InnerEntries, MaxEntries) \ {<<>>}}
SourceEls == {FeedEl("feed:source", s) : s \in SourceShapes}

\* <entry> elements
EntryShapes == {MinimalEntry} \cup Variants(MinimalEntry) \cup {[MinimalEntry EXCEPT !.authors = a, !.source = <<s>>] : a \in {<<>>, <<Pb("feed:author")>>}, s \in SourceEls}
CoreSources == {FeedEl("feed:source", s) : s \in {[MinimalFeed EXCEPT !.authors = <<Pc("feed:author")>>, !.entries = <<EntryEl(MinimalEntry)>>], [MinimalFeed EXCEPT !.id = <<>>], [MinimalFeed EXCEPT !.title = <<Leaf("feed:title", None)>>]}}
CoreEntryShapes == {MinimalEntry, [MinimalEntry EXCEPT !.authors = <<Pb("feed:author")>>], [MinimalEntry EXCEPT !.links = <<LinkEl(None, None)>>]} \cup {[MinimalEntry EXCEPT !.source = <<s>>] : s \in CoreSources}

\* the documents: up to two groups of the minimal feed changed and no entry,
\* one entry of any shape, or up to MaxEntries entries of the core shapes
RootShapes ==
  {MinimalFeed} \cup Variants(MinimalFeed) \cup UNION {Variants(v) : v \in Variants(MinimalFeed)}
  \cup {[MinimalFeed EXCEPT !.authors = a, !.entries = <<EntryEl(e)>>] : a \in OkAuthorSeqs("feed:author"), e \in EntryShapes}
  \cup {[MinimalFeed EXCEPT !.authors = a, !.entries = es] : a \in {<<>>, <<Pa("feed:author")>>}, es \in SeqsUpTo({EntryEl(e) : e \in CoreEntryShapes}, MaxEntries)}
Documents == {FeedEl("feed:feed", s) : s \in RootShapes}

(***************************************************************************)
(* The parser as a machine: stack holds the frames of the calls in         *)
(* progress of _parse_atom and _get_entry, the innermost one last.         *)
(***************************************************************************)
VARIABLES
  doc,     \* the root element of the document given to the entry point
  pc,      \* "start", "running" or "done"
  stack,   \* the call frames
  exc,     \* the exception in flight, NoExc when none
  heap,    \* the lists of persons allocated so far, by address
  result   \* what the entry point gave its caller

vars == <<doc, pc, stack, exc, heap, result>>

Top == stack[Len(stack)]
Pop == SubSeq(stack, 1, Len(stack) - 1)
SetTop(frame) == [stack EXCEPT ![Len(stack)] = frame]
Running(fn, at) == pc = "running" /\ exc = NoExc /\ stack # <<>> /\ Top.fn = fn /\ Top.pc = at

ParseAtomFrame(root, parse_entries) == [fn |-> "_parse_atom", pc |-> "meta", root |-> root, parse_entries |-> parse_entries, f |-> None, entries |-> <<>>]
GetEntryFrame(element, default_authors) == [fn |-> "_get_entry", pc |-> "head", root |-> element, default_authors |-> default_authors, title |-> None, id_ |-> None, source |-> None, source_authors |-> 0]

Init ==
  /\ doc \in Documents
  /\ pc = "start"
  /\ stack = <<>>
  /\ exc = NoExc
  /\ heap = <<>>
  /\ result = [status |-> "none", feed |-> None, exc |-> NoExc]

\* parse_atom_file: the root of the parsed file goes to _parse_atom
parse_atom_file ==
  /\ pc = "start"
  /\ pc' = "running"
  /\ stack' = <<ParseAtomFrame(doc, TRUE)>>
  /\ UNCHANGED <<doc, exc, heap, result>>

\* parse_atom_bytes: the root of the parsed bytes goes to _parse_atom
parse_atom_bytes ==
  /\ pc = "start"
  /\ pc' = "running"
  /\ stack' = <<ParseAtomFrame(doc, TRUE)>>
  /\ UNCHANGED <<doc, exc, heap, result>>

\* _parse_atom up to the entries: the fields in the order the code reads them
FeedMeta(root) ==
  LET title == _get_text_construct(root, "feed:title", FALSE)
      id_ == _get_text(root, "feed:id", FALSE)
      updated == _get_datetime(root, "feed:updated", TRUE)
      authors == persons(root, "feed:author")
      contributors == persons(root, "feed:contributor")
      lnks == links(root)
      cats == categories(root)
      generator == _get_generator(root, "feed:generator", TRUE)
      subtitle == _get_text_construct(root, "feed:subtitle", TRUE)
      rights == _get_text_construct(root, "feed:rights", TRUE)
      icon == _get_text(root, "feed:icon", TRUE)
      logo == _get_text(root, "feed:logo", TRUE)
      e == FirstExc(<<title, id_, updated, authors, contributors, lnks, cats, generator, subtitle, rights, icon, logo>>)
  IN IF e # NoExc THEN Raise(e)
     ELSE Ok([title |-> title.val[1], id_ |-> id_.val[1], updated |-> updated.val,
              authors |-> authors.val, contributors |-> contributors.val, links |-> lnks.val,
              categories |-> cats.val, generator |-> generator.val, subtitle |-> subtitle.val,
              rights |-> rights.val, icon |-> icon.val, logo |-> logo.val])

ParseAtomMeta ==
  /\ Running("_parse_atom", "meta")
  /\ \E r \in {FeedMeta(Top.root)} :
        IF Raised(r)
        THEN /\ exc' = r.exc
             /\ UNCHANGED <<stack, heap>>
        ELSE /\ heap' = Append(heap, r.val.authors)
             /\ stack' = SetTop([Top EXCEPT !.pc = "entries", !.f = Some([r.val EXCEPT !.authors = Len(heap) + 1])])
             /\ exc' = NoExc
  /\ UNCHANGED <<doc, pc, result>>

\* the entries read whatever parse_entries says
ParseAtomNextEntryAlways ==
  /\ Running("_parse_atom", "entries")
  /\ Len(Top.entries) < Len(findall(Top.root, "feed:entry"))
  /\ stack' = Append(stack, GetEntryFrame(findall(Top.root, "feed:entry")[Len(Top.entries) + 1], Top.f[1].authors))
  /\ UNCHANGED <<doc, pc, exc, heap, result>>

\* entries = [_get_entry(e, authors) for e in root.findall('feed:entry', _ns)]:
\* the call for the next <entry>
ParseAtomNextEntry ==
  /\ Running("_parse_atom", "entries")
  /\ Top.parse_entries
  /\ Len(Top.entries) < Len(findall(Top.root, "feed:entry"))
  /\ stack' = Append(stack, GetEntryFrame(findall(Top.root, "feed:entry")[Len(Top.entries) + 1], Top.f[1].authors))
  /\ UNCHANGED <<doc, pc, exc, heap, result>>

AtomFeed(f, entries) ==
  [title |-> f.title, id_ |-> f.id_, updated |-> f.updated, authors |-> f.authors,
   contributors |-> f.contributors, links |-> f.links, categories |-> f.categories,
   generator |-> f.generator, subtitle |-> f.subtitle, rights |-> f.rights,
   icon |-> f.icon, logo |-> f.logo, entries |-> entries]

\* the feed _parse_atom returns; entries = [] when parse_entries is false
ParseAtomResult(frame) == AtomFeed(frame.f[1], IF frame.parse_entries THEN frame.entries ELSE <<>>)

\* return atom_feed, to the entry point or to _get_entry's try ... else
ParseAtomReturn ==
  /\ Running("_parse_atom", "entries")
  /\ Top.parse_entries => Len(Top.entries) = Len(findall(Top.root, "feed:entry"))
  /\ IF Len(stack) = 1
     THEN /\ stack' = <<>>
          /\ pc' = "done"
          /\ result' = [status |-> "ok", feed |-> Some(ParseAtomResult(Top)), exc |-> NoExc]
     ELSE /\ stack' = [Pop EXCEPT ![Len(stack) - 1] = [@ EXCEPT !.pc = "rest", !.source = Some(ParseAtomResult(Top)), !.source_authors = ParseAtomResult(Top).authors]]
          /\ UNCHANGED <<pc, result>>
  /\ UNCHANGED <<doc, exc, heap>>

\* _get_entry: the mandatory title and id
GetEntryHead ==
  /\ Running("_get_entry", "head")
  /\ \E title \in {_get_text_construct(Top.root, "feed:title", FALSE)}, id_ \in {_get_text(Top.root, "feed:id", FALSE)} :
     LET e == FirstExc(<<title, id_>>)
     IN IF e # NoExc
        THEN /\ exc' = e
             /\ UNCHANGED stack
        ELSE /\ exc' = NoExc
             /\ stack' = SetTop([Top EXCEPT !.pc = "source", !.title = title.val[1], !.id_ = id_.val[1]])
  /\ UNCHANGED <<doc, pc, heap, result>>

\* the call for <source> made with the default, parse_entries=True
source_parse_entries_default == TRUE

\* the parse_entries argument of the call for <source>
source_parse_entries == FALSE

\* try: source = _parse_atom(_get_child(root, 'feed:source'), parse_entries=False)
GetEntrySource ==
  /\ Running("_get_entry", "source")
  /\ \E child \in {_get_child(Top.root, "feed:source", FALSE)} :
        IF Raised(child)
        THEN /\ exc' = child.exc
             /\ stack' = SetTop([Top EXCEPT !.pc = "try"])
        ELSE /\ exc' = NoExc
             /\ stack' = Append(SetTop([Top EXCEPT !.pc = "try"]), ParseAtomFrame(child.val[1], source_parse_entries))
  /\ UNCHANGED <<doc, pc, heap, result>>

\* the handler put around the whole of _get_entry
HandlesAnywhere(frame, e) == frame.fn = "_get_entry" /\ e.type = "AtomParseError"

\* no handler at all
HandlesNothing(frame, e) == FALSE

\* whether the frame has a handler for e: except AtomParseError, around the
\* call for <source> only
Handles(frame, e) == frame.fn = "_get_entry" /\ frame.pc = "try" /\ e.type = "AtomParseError"

\* except AtomParseError: source = None; source_authors = []
ExceptAtomParseError ==
  /\ pc = "running"
  /\ exc # NoExc
  /\ stack # <<>>
  /\ Handles(Top, exc)
  /\ exc' = NoExc
  /\ heap' = Append(heap, <<>>)
  /\ stack' = SetTop([Top EXCEPT !.pc = "rest", !.source = None, !.source_authors = Len(heap) + 1])
  /\ UNCHANGED <<doc, pc, result>>

\* an exception the innermost frame does not handle leaves the call; out of
\* the outermost call it reaches the caller of the entry point
Propagate ==
  /\ pc = "running"
  /\ exc # NoExc
  /\ stack # <<>>
  /\ ~Handles(Top, exc)
  /\ stack' = Pop
  /\ IF Len(stack) = 1
     THEN /\ pc' = "done"
          /\ result' = [status |-> "raised", feed |-> None, exc |-> exc]
          /\ exc' = NoExc
     ELSE UNCHANGED <<pc, result, exc>>
  /\ UNCHANGED <<doc, heap>>

\* the fallback to the source's authors forgotten
ResolveAuthorsNoSource(h, own, default_authors, source_authors) == IF h[own] # <<>> THEN own ELSE default_authors

\* the source's authors tried before the feed's
ResolveAuthorsSourceFirst(h, own, default_authors, source_authors) ==
  IF h[own] # <<>> THEN own
  ELSE IF source_authors # 0 /\ h[source_authors] # <<>> THEN source_authors
  ELSE default_authors

\* authors = [...] or default_authors
\* authors = authors or default_authors or source_authors
\* on the addresses of the lists in heap h
ResolveAuthors(h, own, default_authors, source_authors) ==
  LET authors == IF h[own] # <<>> THEN own ELSE default_authors
  IN IF h[authors] # <<>> THEN authors
     ELSE IF h[default_authors] # <<>> THEN default_authors
     ELSE source_authors

\* _get_entry after the source: the fields in the order the code reads them
EntryRest(root) ==
  LET authors == persons(root, "feed:author")
      contributors == persons(root, "feed:contributor")
      lnks == links(root)
      cats == categories(root)
      updated == _get_datetime(root, "feed:updated", TRUE)
      published == _get_datetime(root, "feed:published", TRUE)
      rights == _get_text_construct(root, "feed:rights", TRUE)
      summary == _get_text_construct(root, "feed:summary", TRUE)
      content == _get_text_construct(root, "feed:content", TRUE)
      e == FirstExc(<<authors, contributors, lnks, cats, updated, published, rights, summary, content>>)
  IN IF e # NoExc THEN Raise(e)
     ELSE Ok([authors |-> authors.val, contributors |-> contributors.val, links |-> lnks.val,
              categories |-> cats.val, updated |-> updated.val, published |-> published.val,
              rights |-> rights.val, summary |-> summary.val, content |-> content.val])

AtomEntry(frame, r, authors) ==
  [title |-> frame.title, id_ |-> frame.id_, updated |-> r.updated, authors |-> authors,
   contributors |-> r.contributors, links |-> r.links, categories |-> r.categories,
   published |-> r.published, rights |-> r.rights, summary |-> r.summary,
   content |-> r.content, source |-> frame.source]

\* _get_entry from the authors on, and its return into the caller's list
GetEntryRest ==
  /\ Running("_get_entry", "rest")
  /\ \E r \in {EntryRest(Top.root)} :
     LET own == Len(heap) + 1
     IN IF Raised(r)
        THEN /\ exc' = r.exc
             /\ UNCHANGED <<stack, heap>>
        ELSE /\ exc' = NoExc
             /\ heap' = Append(heap, r.val.authors)
             /\ stack' = [Pop EXCEPT ![Len(stack) - 1] = [@ EXCEPT !.entries = Append(@, AtomEntry(Top, r.val, ResolveAuthors(heap', own, Top.default_authors, Top.source_authors)))]]
  /\ UNCHANGED <<doc, pc, result>>

Next ==
  \/ parse_atom_file
  \/ parse_atom_bytes
  \/ ParseAtomMeta
  \/ ParseAtomNextEntry
  \/ ParseAtomReturn
  \/ GetEntryHead
  \/ GetEntrySource
  \/ ExceptAtomParseError
  \/ Propagate
  \/ GetEntryRest

Spec == Init /\ [][Next]_vars

\* one thread runs the parse: a step that can be taken is taken
FairSpec == Spec /\ WF_vars(Next)

(***************************************************************************)
(* What the claims speak of.                                               *)
(***************************************************************************)
Done == pc = "done"
Succeeded == Done /\ result.status = "ok"
Failed == Done /\ result.status = "raised" /\ result.feed = None
Feed == result.feed[1]
EntryEls == findall(doc, "feed:entry")
Indices(sq) == 1..Len(sq)

\* the entries built so far for the document's feed, and that feed's authors
Built == IF Succeeded THEN Feed.entries ELSE IF stack # <<>> THEN stack[1].entries ELSE <<>>
FeedAuthors == IF Succeeded THEN heap[Feed.authors] ELSE IF stack # <<>> /\ stack[1].f # None THEN heap[stack[1].f[1].authors] ELSE <<>>

HasNo(el, name) == Len(findall(el, name)) = 0
SourceOf(el) == findall(el, "feed:source")[1]
\* the persons of the element's <author> children, when they all parse
OwnAuthors(el) == persons(el, "feed:author").val

\* C1: every entry built has the authors of its own <author> children if
\* there is one, else the feed's authors if there is one, else the authors of
\* its parsed source if there is one, else none; with no <author>, no feed
\* author and a source that parses, they are the source element's authors.
C1_AuthorPrecedence ==
  \A i \in Indices(Built) :
    LET el == EntryEls[i]
        e == Built[i]
        sourceAuthors == IF e.source # None THEN heap[e.source[1].authors] ELSE <<>>
    IN /\ heap[e.authors] = IF OwnAuthors(el) # <<>> THEN OwnAuthors(el)
                            ELSE IF FeedAuthors # <<>> THEN FeedAuthors
                            ELSE sourceAuthors
       /\ (HasNo(el, "feed:author") /\ FeedAuthors = <<>> /\ ~HasNo(el, "feed:source") /\ ~Raised(FeedMeta(SourceOf(el))))
            => /\ e.source # None
               /\ heap[e.authors] = OwnAuthors(SourceOf(el))

\* an entry without <author> in a feed without authors took the authors of
\* its source
C1_Witness ==
  /\ Succeeded
  /\ \E i \in Indices(Feed.entries) :
       /\ HasNo(EntryEls[i], "feed:author")
       /\ heap[Feed.authors] = <<>>
       /\ Feed.entries[i].source # None
       /\ heap[Feed.entries[i].authors] # <<>>

\* the document parses wherever it is read outside a <source>
OutsideSourceOK ==
  /\ ~Raised(FeedMeta(doc))
  /\ \A i \in Indices(EntryEls) :
       /\ ~Raised(_get_text_construct(EntryEls[i], "feed:title", FALSE))
       /\ ~Raised(_get_text(EntryEls[i], "feed:id", FALSE))
       /\ ~Raised(EntryRest(EntryEls[i]))

\* C2: a <source> that does not parse, whatever the failure, leaves the
\* document parsed, with the entry's source null and no authors taken from it.
C2_SourceFailureContained ==
  (Done /\ OutsideSourceOK) =>
    /\ Succeeded
    /\ \A i \in Indices(EntryEls) :
         (~HasNo(EntryEls[i], "feed:source") /\ Raised(FeedMeta(SourceOf(EntryEls[i])))) =>
           /\ Feed.entries[i].source = None
           /\ heap[Feed.entries[i].authors] = IF OwnAuthors(EntryEls[i]) # <<>> THEN OwnAuthors(EntryEls[i]) ELSE heap[Feed.authors]

\* a mandatory field is missing in the element: title, id, the name of an
\* author or contributor, the href of a link, the term of a category
MandatoryViolation(el) ==
  \/ HasNo(el, "feed:title")
  \/ HasNo(el, "feed:id")
  \/ \E tag \in {"feed:author", "feed:contributor"} : \E i \in Indices(findall(el, tag)) : HasNo(findall(el, tag)[i], "feed:name")
  \/ \E i \in Indices(findall(el, "feed:link")) : findall(el, "feed:link")[i].attrib["href"] = None
  \/ \E i \in Indices(findall(el, "feed:category")) : findall(el, "feed:category")[i].attrib["term"] = None

\* C3: a mandatory field missing in the feed or in one of its entries makes
\* the entry point fail and return no feed; a missing root title fails with
\* the error naming the title and the root's tag.
C3_AllOrNothing ==
  Done =>
    /\ (MandatoryViolation(doc) \/ \E i \in Indices(EntryEls) : MandatoryViolation(EntryEls[i])) => Failed
    /\ HasNo(doc, "feed:title") => (Failed /\ result.exc = AtomParseError("feed:title", doc.tag))

\* the parse failed on a later entry after an entry had been built
C3_Witness ==
  /\ Failed
  /\ Len(EntryEls) >= 2
  /\ ~MandatoryViolation(doc)
  /\ ~MandatoryViolation(EntryEls[1])
  /\ MandatoryViolation(EntryEls[2])

\* C4: in a parsed feed the source of an entry has no entries, whatever
\* <entry> children the <source> element holds.
C4_SourceHasNoEntries ==
  Succeeded => \A i \in Indices(Feed.entries) : Feed.entries[i].source # None => Feed.entries[i].source[1].entries = <<>>

\* a source was parsed from a <source> element that holds <entry> children
C4_Witness ==
  /\ Succeeded
  /\ \E i \in Indices(Feed.entries) :
       /\ Feed.entries[i].source # None
       /\ ~HasNo(SourceOf(EntryEls[i]), "feed:entry")

\* C5: the root title's type attribute decides text_type (text when absent,
\* the variant when recognised), and any other value fails with the parser's
\* own error, AtomParseError.
C5_TextType ==
  (Done /\ ~HasNo(doc, "feed:title")) =>
    LET ty == find(doc, "feed:title")[1].attrib["type"]
    IN /\ (Succeeded /\ ty = None) => Feed.title.text_type = AtomTextType_text
       /\ (Succeeded /\ ty # None) => Feed.title.text_type = ty[1]
       /\ (ty # None /\ ty[1] \notin AtomTextType) => (Failed /\ result.exc.type = "AtomParseError")

\* C6: a required element found without text fails with the typed error
\* naming the element: in utils.get_text, and in the parser for the root's
\* mandatory id.
C6_EmptyElement ==
  /\ \A el \in {doc} \cup {EntryEls[i] : i \in Indices(EntryEls)} :
       (~HasNo(el, "feed:id") /\ find(el, "feed:id")[1].text = None) =>
         get_text(el, "feed:id", FALSE).exc = FeedParseError("feed:id", "")
  /\ (Done /\ ~Raised(_get_text_construct(doc, "feed:title", FALSE)) /\ ~HasNo(doc, "feed:id") /\ find(doc, "feed:id")[1].text = None) =>
       /\ Failed
       /\ result.exc.type \in {"AtomParseError", "FeedParseError"}
       /\ result.exc.name = "feed:id"

\* C7 as claimed: in a parsed feed every entry without <author> has the
\* feed's authors.
C7_Original ==
  Succeeded => \A i \in Indices(Feed.entries) : HasNo(EntryEls[i], "feed:author") => heap[Feed.entries[i].authors] = heap[Feed.authors]

\* C7, amended: in a parsed feed every entry without <author> has the feed's
\* authors, unless the feed has none and the entry has a parsed source with
\* authors: then it has the source's authors.
C7_Amended ==
  Succeeded =>
    \A i \in Indices(Feed.entries) :
      LET e == Feed.entries[i]
          fromSource == heap[Feed.authors] = <<>> /\ e.source # None /\ heap[e.source[1].authors] # <<>>
      IN HasNo(EntryEls[i], "feed:author") =>
           heap[e.authors] = IF fromSource THEN heap[e.source[1].authors] ELSE heap[Feed.authors]

\* an entry without <author>, with a source that has authors, took the
\* authors of its feed
C7_Witness ==
  /\ Succeeded
  /\ \E i \in Indices(Feed.entries) :
       /\ HasNo(EntryEls[i], "feed:author")
       /\ heap[Feed.authors] # <<>>
       /\ Feed.entries[i].source # None
       /\ heap[Feed.entries[i].source[1].authors] # <<>>
       /\ heap[Feed.entries[i].authors] = heap[Feed.authors]

\* the element holds a title and an id with text and nothing else (but the
\* given children), the title's type being absent or recognised
IsMinimal(el, others) ==
  /\ Len(findall(el, "feed:title")) = 1
  /\ Len(findall(el, "feed:id")) = 1
  /\ Len(el.children) = 2 + Len(others)
  /\ find(el, "feed:title")[1].text # None
  /\ find(el, "feed:id")[1].text # None
  /\ find(el, "feed:title")[1].attrib["type"] \in {None} \cup {Some(t) : t \in AtomTextType}

\* C8: a document whose feed and entries hold only title and id parses, and
\* every optional field is null, every sequence empty.
C8_MinimalDocument ==
  (Done /\ IsMinimal(doc, EntryEls) /\ \A i \in Indices(EntryEls) : IsMinimal(EntryEls[i], <<>>)) =>
    /\ Succeeded
    /\ \A k \in {"updated", "generator", "subtitle", "rights", "icon", "logo"} : Feed[k] = None
    /\ \A k \in {"contributors", "links", "categories"} : Feed[k] = <<>>
    /\ heap[Feed.authors] = <<>>
    /\ Len(Feed.entries) = Len(EntryEls)
    /\ \A i \in Indices(Feed.entries) :
         /\ \A k \in {"updated", "published", "rights", "summary", "content", "source"} : Feed.entries[i][k] = None
         /\ \A k \in {"contributors", "links", "categories"} : Feed.entries[i][k] = <<>>
         /\ heap[Feed.entries[i].authors] = <<>>

\* a minimal document with entries was parsed
C8_Witness ==
  /\ Succeeded
  /\ IsMinimal(doc, EntryEls)
  /\ Len(EntryEls) >= 2
  /\ \A i \in Indices(EntryEls) : IsMinimal(EntryEls[i], <<>>)

\* C9: in a parsed feed no entry's list of authors is the list of its feed
\* or of its source, nor the list of another entry.
C9_NoSharing ==
  Succeeded =>
    \A i \in Indices(Feed.entries) :
      /\ Feed.entries[i].authors # Feed.authors
      /\ Feed.entries[i].source # None => Feed.entries[i].authors # Feed.entries[i].source[1].authors
      /\ \A j \in Indices(Feed.entries) : i # j => Feed.entries[i].authors # Feed.entries[j].authors

\* the calls in progress are _parse_atom, then _get_entry, then _parse_atom
\* without entries, and no more
NestingOK ==
  /\ Len(stack) <= 3
  /\ \A i \in Indices(stack) : stack[i].fn = IF i = 2 THEN "_get_entry" ELSE "_parse_atom"
  /\ Len(stack) = 3 => ~stack[3].parse_entries

\* C10: the parse ends, and _parse_atom is never nested more than two deep:
\* inside the call for a <source> _get_entry is not called.
C10_TerminatesBoundedDepth == [](NestingOK) /\ <>Done

\* the call for a <source> that holds an entry with its own <source> is at
\* the point where a feed's entries are read
C10_Witness ==
  /\ Len(stack) = 3
  /\ stack[3].pc = "entries"
  /\ \E i \in Indices(findall(stack[3].root, "feed:entry")) : ~HasNo(findall(stack[3].root, "feed:entry")[i], "feed:source")

====
